---- MODULE Spec2Model ----
(***************************************************************************)
(* Model of the schema-synthesis core of zod-openapi:                      *)
(*   src/src/create/schema/index.ts          createSchema (the type        *)
(*       dispatcher), createRegisteredSchema, createSchemaOrRef            *)
(*   src/src/create/schema/parsers/object.ts createObjectSchema,           *)
(*       createExtendedSchema, createDiffOpts, createShapeDiff,            *)
(*       createObjectSchemaFromShape, mapRequired, mapProperties           *)
(* Schema nodes are entries of the table `nodes`, keyed by node identity.  *)
(* Synthesis is synchronous and depth-first, so every exported function is *)
(* one action; the recursion is carried by recursive operators that thread *)
(* the registry through every call and hand it back, also when a call      *)
(* throws (an exception unwinds the stack but keeps the registry writes).  *)
(***************************************************************************)
EXTENDS Integers, Sequences, FiniteSets, TLC

VARIABLES
    nodes,       \* node identity -> schema node (_def), fixed after Init
    mode,        \* state.type: "input" or "output"
    components,  \* the registry: .schema by name, .schemas by node identity
    call,        \* the last operation invoked and its arguments
    result,      \* what that operation returned or threw
    history      \* the registrations by name so far, in order

vars == <<nodes, mode, components, call, result, history>>

\* Largest number of fields a generated object shape declares itself.
MaxFields == 2

\* Largest number of option nodes of the probed union.
MaxOptions == 2

\* Deepest nesting of dispatcher calls the call stack holds; a call nested
\* deeper throws the engine's RangeError.
MaxDepth == 6

----------------------------------------------------------------------------
(* Schema nodes *)

Keys == <<"a", "b", "c", "d">>

Names == {"obj1", "obj2"}

Node(typeName) ==
    [typeName |-> typeName, innerType |-> "", options |-> <<>>,
     effect |-> "", shape |-> <<>>, unknownKeys |-> "strip",
     catchall |-> "never", extends |-> "", ref |-> "", type |-> "",
     format |-> ""]

Wrapper(typeName, inner) == [Node(typeName) EXCEPT !.innerType = inner]

Effects(effect, inner) ==
    [Node("ZodEffects") EXCEPT !.innerType = inner, !.effect = effect]

Field(key, node) == [key |-> key, node |-> node]

\* The nodes every run starts with.  "custom" is z.custom(), "xform" is
\* z.string().transform(), "date" is the union of both carrying the manual
\* type {type: string, format: date}; "objdef" is z.object({a: def}).
StaticNodes ==
    [str |-> Node("ZodString"),
     num |-> Node("ZodNumber"),
     bool |-> Node("ZodBoolean"),
     never |-> Node("ZodNever"),
     undef |-> Node("ZodUndefined"),
     any |-> Node("ZodAny"),
     opt |-> Wrapper("ZodOptional", "str"),
     def |-> Wrapper("ZodDefault", "str"),
     custom |-> Effects("refinement", "any"),
     xform |-> Effects("transform", "str"),
     manual |-> [Node("ZodAny") EXCEPT !.type = "string"],
     date |-> [Node("ZodUnion") EXCEPT !.options = <<"custom", "xform">>,
                                       !.type = "string", !.format = "date"],
     objdef |-> [Node("ZodObject") EXCEPT !.shape = <<Field("a", "def")>>]]

isZodType(n, typeName) == nodes[n].typeName = typeName

----------------------------------------------------------------------------
(* Fragments, effects and results *)

EmptyFrag ==
    [type |-> "", format |-> "", default |-> "", ref |-> "",
     hasProperties |-> FALSE, properties |-> <<>>, required |-> <<>>,
     additionalProperties |-> "omitted", additionalSchema |-> <<>>,
     allOf |-> <<>>, anyOf |-> <<>>, items |-> <<>>]

TypeFrag(type) == [EmptyFrag EXCEPT !.type = type]

createComponentSchemaRef(schemaRef) == "#/components/schemas/" \o schemaRef

RefFrag(schemaRef) ==
    [EmptyFrag EXCEPT !.ref = createComponentSchemaRef(schemaRef)]

SchemaEffect(n, path) ==
    [type |-> "schema", creationType |-> mode, zodType |-> n, path |-> path]

ComponentEffect(n, path) ==
    [type |-> "component", creationType |-> "", zodType |-> n, path |-> path]

RECURSIVE flattenEffects(_)
flattenEffects(lists) ==
    IF lists = <<>> THEN <<>>
    ELSE Head(lists) \o flattenEffects(Tail(lists))

NoEntry == [type |-> "absent", ref |-> "", schemaObject |-> EmptyFrag,
            effects |-> <<>>]

NoComponent == [bound |-> FALSE, zodSchema |-> "", schemaObject |-> EmptyFrag]

\* A call's outcome: the fragment and effects it returns, or the error it
\* throws and the node whose handling threw it; with the registry as the
\* call left it, the nodes the dispatcher ran on, in order, and the names
\* the call bound, in order, each with the node it was bound to.  `seen` is
\* the object composer's log of the effect lists its child syntheses handed
\* back, in call order, followed by the effects of its own level.
Ok(type, schema, effects, st) ==
    [type |-> type, schema |-> schema, effects |-> effects, error |-> "",
     at |-> "", components |-> st.components, gen |-> st.gen,
     bound |-> st.bound, seen |-> <<>>]

Fail(error, n, st) ==
    [type |-> "error", schema |-> EmptyFrag, effects |-> <<>>,
     error |-> error, at |-> n, components |-> st.components, gen |-> st.gen,
     bound |-> st.bound, seen |-> <<>>]

\* The element of a one-element set.  { e(r) : r \in {call} } evaluates the
\* call once and names its outcome r, as a `const r = ...` does.
The(S) == CHOOSE v \in S : TRUE

After(st, r) ==
    [st EXCEPT !.components = r.components, !.gen = r.gen, !.bound = r.bound]

Push(st, subpath) == [st EXCEPT !.path = @ \o subpath]

FreshState ==
    [components |-> components, path |-> <<>>, gen |-> <<>>, bound |-> <<>>,
     depth |-> 0]

----------------------------------------------------------------------------
(* The registry and the recursion entry points *)

RECURSIVE createSchemaObject(_, _, _)
RECURSIVE createSchemaOrRef(_, _)
RECURSIVE createRegisteredSchema(_, _, _)
RECURSIVE createSchemaWithMetadata(_, _)
RECURSIVE createSchema(_, _)
RECURSIVE createObjectSchema(_, _)
RECURSIVE createExtendedSchema(_, _, _)
RECURSIVE createExtendedSchemaFrom(_, _, _)
RECURSIVE createObjectSchemaFromShape(_, _, _)
RECURSIVE mapProperties(_, _)
RECURSIVE mapPropertiesFrom(_, _, _)

\* Name collision: the name is bound to another node identity.
NameTaken(comps, n, ref) ==
    \E m \in DOMAIN comps.schemas :
        /\ m # n
        /\ comps.schemas[m].type # "absent"
        /\ comps.schemas[m].ref = ref

SetEntry(st, n, entry) ==
    [st EXCEPT !.components.schemas[n] = entry]

\* Lookup-or-create for a node absent from the registry that asks for a name.
createNewRef(ref, n, st) ==
    IF NameTaken(st.components, n, ref)
    THEN Fail("DuplicateRef", n, st)
    ELSE The({
             IF r.type = "error" THEN r
             ELSE Ok("ref", RefFrag(ref), r.effects,
                     SetEntry(After(st, r), n,
                              [type |-> "complete", ref |-> ref,
                               schemaObject |-> r.schema,
                               effects |-> r.effects]))
             : r \in {createSchemaWithMetadata(n,
                          SetEntry(st, n, [NoEntry EXCEPT !.type = "in-progress",
                                                          !.ref = ref]))}})

\* The entry point every recursion of the object composer goes through: the
\* path is extended for the call, the registry intercepts named nodes.
createSchemaObject(n, st, subpath) ==
    LET s == Push(st, subpath)
        entry == s.components.schemas[n]
    IN  CASE entry.type = "complete" ->
               Ok("ref", RefFrag(entry.ref), entry.effects, s)
          [] entry.type = "in-progress" ->
               Ok("ref", RefFrag(entry.ref), <<ComponentEffect(n, s.path)>>, s)
          [] entry.type = "absent" /\ nodes[n].ref # "" ->
               createNewRef(nodes[n].ref, n, s)
          [] OTHER -> createSchemaWithMetadata(n, s)

\* The dispatcher's fragment with the node's openapi metadata laid over it.
createSchemaWithMetadata(n, st) ==
    The({IF r.type # "schema" \/ nodes[n].type = "" THEN r
         ELSE [r EXCEPT !.schema.type = nodes[n].type,
                        !.schema.format = nodes[n].format]
         : r \in {createSchema(n, st)}})

createRegisteredSchema(n, schemaRef, st) ==
    LET component == st.components.schema[schemaRef]
    IN  IF component.bound
        THEN IF component.zodSchema # n
             THEN Fail("DuplicateRef", n, st)
             ELSE Ok("ref", RefFrag(schemaRef), <<>>, st)
        ELSE The({
                 IF r.type = "error" THEN r
                 ELSE IF r.schema.ref # ""
                 THEN Fail("UnexpectedReferenceFragment", n, After(st, r))
                 ELSE Ok("ref", RefFrag(schemaRef), <<>>,
                         [After(st, r) EXCEPT
                             !.components.schema[schemaRef] =
                                 [bound |-> TRUE, zodSchema |-> n,
                                  schemaObject |-> r.schema],
                             !.bound = Append(@, [name |-> schemaRef,
                                                  zodSchema |-> n])])
                 : r \in {createSchemaWithMetadata(n, st)}})

createSchemaOrRef(n, st) ==
    LET schemaRef == nodes[n].ref
    IN  IF schemaRef # ""
        THEN createRegisteredSchema(n, schemaRef, st)
        ELSE createSchemaWithMetadata(n, st)

----------------------------------------------------------------------------
(* The type dispatcher and the generators it routes to *)

\* The generators of the primitive variants: one-shot field copies.
LeafType ==
    [ZodString |-> "string", ZodNumber |-> "number", ZodBoolean |-> "boolean",
     ZodEnum |-> "string", ZodLiteral |-> "string", ZodNativeEnum |-> "string",
     ZodNull |-> "null", ZodDate |-> "string"]

LeafKinds == DOMAIN LeafType

InnerKinds == {"ZodArray", "ZodNullable", "ZodOptional", "ZodDefault",
               "ZodRecord"}

OptionKinds == {"ZodUnion", "ZodDiscriminatedUnion", "ZodTuple"}

createLeafSchema(n) == TypeFrag(LeafType[nodes[n].typeName])

\* array, nullable, optional, default, record, refinement and preprocess:
\* the fragment of the one inner node, wrapped.
InnerFrag(typeName, inner) ==
    CASE typeName = "ZodArray" ->
           [TypeFrag("array") EXCEPT !.items = <<inner>>]
      [] typeName = "ZodRecord" ->
           [TypeFrag("object") EXCEPT !.additionalProperties = "schema",
                                      !.additionalSchema = <<inner>>]
      [] typeName = "ZodDefault" /\ inner.ref = "" ->
           [inner EXCEPT !.default = "a"]
      [] OTHER -> inner

createInnerSchema(n, st) ==
    The({IF r.type = "error" THEN r
         ELSE [r EXCEPT !.type = IF InnerFrag(nodes[n].typeName, r.schema).ref # ""
                                 THEN "ref" ELSE "schema",
                        !.schema = InnerFrag(nodes[n].typeName, r.schema)]
         : r \in {createSchemaOrRef(nodes[n].innerType, st)}})

\* union, discriminated union and tuple: the fragments of the option nodes,
\* in order; the first option that throws ends the call.
RECURSIVE createOptionsFrom(_, _, _, _)
createOptionsFrom(options, i, frags, st) ==
    IF i > Len(options)
    THEN Ok("schema", [EmptyFrag EXCEPT !.anyOf = frags], <<>>, st)
    ELSE The({IF r.type = "error" THEN r
              ELSE createOptionsFrom(options, i + 1, Append(frags, r.schema),
                                     After(st, r))
              : r \in {createSchemaOrRef(options[i], st)}})

createUnionSchema(n, st) == createOptionsFrom(nodes[n].options, 1, <<>>, st)

\* Variant: no way out through the manual type.
createManualSchema_throw(n, st) == Fail("UnrecognizedSchemaKind", n, st)

\* No generator matched: the manual type is the only way out.
createManualSchema(n, st) ==
    IF nodes[n].type = ""
    THEN Fail("UnrecognizedSchemaKind", n, st)
    ELSE Ok("schema", EmptyFrag, <<>>, st)

\* The dispatcher.  The recursion is on the call stack: a call nested deeper
\* than the stack holds ends the synthesis with a RangeError.
createSchema(n, st) ==
    LET d == nodes[n]
        s == [st EXCEPT !.gen = Append(@, n), !.depth = @ + 1]
    IN  IF st.depth >= MaxDepth THEN Fail("RangeError", n, st)
        ELSE
        CASE d.typeName \in LeafKinds -> Ok("schema", createLeafSchema(n), <<>>, s)
          [] d.typeName \in InnerKinds -> createInnerSchema(n, s)
          [] d.typeName = "ZodObject" -> createObjectSchema(n, s)
          [] d.typeName \in OptionKinds -> createUnionSchema(n, s)
          [] d.typeName = "ZodEffects" /\ d.effect \in {"refinement", "preprocess"} ->
               createInnerSchema(n, s)
          [] OTHER -> createManualSchema(n, s)

----------------------------------------------------------------------------
(* The object composer *)

Undefined(st) == Ok("undefined", EmptyFrag, <<>>, st)

\* shape[key]: the node declared under the key, "" when there is none.
ShapeGet(shape, key) ==
    IF \E i \in 1..Len(shape) : shape[i].key = key
    THEN shape[CHOOSE i \in 1..Len(shape) : shape[i].key = key].node
    ELSE ""

\* Whether the field stays out of `required`, and the effect it records.
isOptionalSchema(n, st) ==
    CASE isZodType(n, "ZodOptional") -> [optional |-> TRUE, effects |-> <<>>]
      [] isZodType(n, "ZodDefault") ->
           [optional |-> mode = "input",
            effects |-> <<SchemaEffect(n, st.path)>>]
      [] isZodType(n, "ZodNever") \/ isZodType(n, "ZodUndefined") ->
           [optional |-> TRUE, effects |-> <<>>]
      [] OTHER -> [optional |-> FALSE, effects |-> <<>>]

RECURSIVE mapRequiredFrom(_, _, _, _)
mapRequiredFrom(shape, i, acc, st) ==
    IF i > Len(shape) THEN acc
    ELSE LET o == isOptionalSchema(shape[i].node,
                                   Push(st, <<"property: " \o shape[i].key>>))
         IN  mapRequiredFrom(shape, i + 1,
                 [required |-> IF o.optional THEN acc.required
                               ELSE Append(acc.required, shape[i].key),
                  effects |-> Append(acc.effects, o.effects)],
                 st)

\* Variant: every key is listed, optional or not.
mapRequired_all(shape, st) ==
    LET acc == mapRequiredFrom(shape, 1, [required |-> <<>>, effects |-> <<>>], st)
    IN  [required |-> [i \in 1..Len(shape) |-> shape[i].key],
         effects |-> flattenEffects(acc.effects)]

mapRequired(shape, st) ==
    LET acc == mapRequiredFrom(shape, 1, [required |-> <<>>, effects |-> <<>>], st)
    IN  [required |-> acc.required, effects |-> flattenEffects(acc.effects)]

\* Variant: only the never sentinel is left out.
IsOmittedField_neverOnly(n) == isZodType(n, "ZodNever")

\* The fields mapProperties leaves out.
IsOmittedField(n) == isZodType(n, "ZodNever") \/ isZodType(n, "ZodUndefined")

mapPropertiesFrom(shape, i, acc) ==
    IF i > Len(shape) \/ acc.thrown.type = "error" THEN acc
    ELSE IF IsOmittedField(shape[i].node)
    THEN mapPropertiesFrom(shape, i + 1, acc)
    ELSE The({
             mapPropertiesFrom(shape, i + 1,
                 IF property.type = "error"
                 THEN [acc EXCEPT !.thrown = property]
                 ELSE [acc EXCEPT
                         !.properties = Append(@, [key |-> shape[i].key,
                                                   schema |-> property.schema]),
                         !.effects = Append(@, property.effects),
                         !.seen = Append(@, property.effects),
                         !.st = After(@, property)])
             : property \in {createSchemaObject(shape[i].node, acc.st,
                                 <<"property: " \o shape[i].key>>)}})

mapProperties(shape, st) ==
    LET start == [defined |-> shape # <<>>, properties |-> <<>>,
                  effects |-> <<>>, seen |-> <<>>, st |-> st,
                  thrown |-> Undefined(st)]
    IN  IF shape = <<>> THEN start ELSE mapPropertiesFrom(shape, 1, start)

\* Variant: the strict policy is spread last and wins over the catch-all.
ObjectFragment_strictLast(properties, required, unknownKeys, additionalProperties) ==
    LET typed == TypeFrag("object")
        withProperties ==
            IF properties.defined
            THEN [typed EXCEPT !.hasProperties = TRUE,
                               !.properties = properties.properties]
            ELSE typed
        withRequired == [withProperties EXCEPT !.required = required.required]
        withCatchall ==
            IF additionalProperties.type # "undefined"
            THEN [withRequired EXCEPT
                     !.additionalProperties = "schema",
                     !.additionalSchema = <<additionalProperties.schema>>]
            ELSE withRequired
    IN  IF unknownKeys = "strict"
        THEN [withCatchall EXCEPT !.additionalProperties = "false",
                                  !.additionalSchema = <<>>]
        ELSE withCatchall

\* The fragment createObjectSchemaFromShape assembles; a later spread
\* replaces the key an earlier one set.
ObjectFragment(properties, required, unknownKeys, additionalProperties) ==
    LET typed == TypeFrag("object")
        withProperties ==
            IF properties.defined
            THEN [typed EXCEPT !.hasProperties = TRUE,
                               !.properties = properties.properties]
            ELSE typed
        withRequired == [withProperties EXCEPT !.required = required.required]
        withStrict ==
            IF unknownKeys = "strict"
            THEN [withRequired EXCEPT !.additionalProperties = "false"]
            ELSE withRequired
    IN  IF additionalProperties.type # "undefined"
        THEN [withStrict EXCEPT !.additionalProperties = "schema",
                                !.additionalSchema = <<additionalProperties.schema>>]
        ELSE withStrict

\* Variant: the catch-all's effects are left out.
ObjectEffects_noAdditional(properties, required, additionalProperties) ==
    flattenEffects(properties.effects \o <<required.effects>>)

ObjectEffects(properties, required, additionalProperties) ==
    flattenEffects(properties.effects
                   \o <<additionalProperties.effects>>
                   \o <<required.effects>>)

\* The return statement of createObjectSchemaFromShape.
ObjectSchema(properties, required, unknownKeys, additionalProperties) ==
    [Ok("schema",
        ObjectFragment(properties, required, unknownKeys, additionalProperties),
        ObjectEffects(properties, required, additionalProperties),
        After(properties.st, additionalProperties))
     EXCEPT !.seen = properties.seen
                     \o (IF additionalProperties.type = "undefined"
                         THEN <<>> ELSE <<additionalProperties.effects>>)
                     \o <<required.effects>>]

createObjectSchemaFromShape(shape, opts, st) ==
    The({
        IF properties.thrown.type = "error" THEN properties.thrown
        ELSE The({
            IF additionalProperties.type = "error" THEN additionalProperties
            ELSE ObjectSchema(properties, required, opts.unknownKeys,
                              additionalProperties)
            : required \in {mapRequired(shape, properties.st)},
              additionalProperties \in
                {IF ~isZodType(opts.catchAll, "ZodNever")
                 THEN createSchemaObject(opts.catchAll, properties.st,
                                         <<"additional properties">>)
                 ELSE Undefined(properties.st)}})
        : properties \in {mapProperties(shape, st)}})

createDiffOpts(baseOpts, extendedOpts) ==
    IF baseOpts.unknownKeys = "strict" \/ ~isZodType(baseOpts.catchAll, "ZodNever")
    THEN [defined |-> FALSE, catchAll |-> "", unknownKeys |-> ""]
    ELSE [defined |-> TRUE, catchAll |-> extendedOpts.catchAll,
          unknownKeys |-> extendedOpts.unknownKeys]

RECURSIVE createShapeDiffFrom(_, _, _, _)
createShapeDiffFrom(baseObj, extendedObj, i, acc) ==
    IF i > Len(extendedObj) THEN [null |-> FALSE, shape |-> acc]
    ELSE LET val == extendedObj[i].node
             baseValue == ShapeGet(baseObj, extendedObj[i].key)
         IN  IF val = baseValue
             THEN createShapeDiffFrom(baseObj, extendedObj, i + 1, acc)
             ELSE IF baseValue = ""
             THEN createShapeDiffFrom(baseObj, extendedObj, i + 1,
                                      Append(acc, extendedObj[i]))
             ELSE [null |-> TRUE, shape |-> <<>>]

\* Variant: an overridden key counts as an added one.
createShapeDiff_override(baseObj, extendedObj) ==
    [null |-> FALSE,
     shape |-> SelectSeq(extendedObj,
                         LAMBDA f : ShapeGet(baseObj, f.key) # f.node)]

createShapeDiff(baseObj, extendedObj) ==
    createShapeDiffFrom(baseObj, extendedObj, 1, <<>>)

OptsOf(n) == [unknownKeys |-> nodes[n].unknownKeys, catchAll |-> nodes[n].catchall]

\* Variant: only a base already in the registry is synthesized.
SynthesizesBase_known(component, baseZodObject) == component.type # "absent"

\* Whether createExtendedSchema synthesizes the base before looking it up.
SynthesizesBase(component, baseZodObject) ==
    component.type # "absent" \/ nodes[baseZodObject].ref # ""

\* The effects createExtendedSchema puts before those of the added fields.
BaseEffects(n, completeComponent, st) ==
    flattenEffects(<<
        IF completeComponent.type = "complete"
        THEN completeComponent.effects ELSE <<>>,
        IF completeComponent.type = "in-progress"
        THEN <<ComponentEffect(n, st.path)>> ELSE <<>> >>)

\* The return statement of createExtendedSchema.
ExtendedSchema(n, completeComponent, extendedSchema, st) ==
    [Ok("schema",
        [extendedSchema.schema EXCEPT
            !.allOf = <<RefFrag(completeComponent.ref)>>],
        flattenEffects(<<BaseEffects(n, completeComponent, st),
                         extendedSchema.effects>>),
        After(st, extendedSchema))
     EXCEPT !.seen = <<BaseEffects(n, completeComponent, st)>>
                     \o extendedSchema.seen]

\* createExtendedSchema from the lookup of the synthesized base on.
createExtendedSchemaFrom(n, baseZodObject, s) ==
    LET completeComponent == s.components.schemas[baseZodObject]
        diffOpts == createDiffOpts(OptsOf(baseZodObject), OptsOf(n))
        diffShape == createShapeDiff(nodes[baseZodObject].shape, nodes[n].shape)
    IN  IF completeComponent.type = "absent" THEN Undefined(s)
        ELSE IF ~diffOpts.defined THEN Undefined(s)
        ELSE IF diffShape.null THEN Undefined(s)
        ELSE The({
            IF extendedSchema.type = "error" THEN extendedSchema
            ELSE ExtendedSchema(n, completeComponent, extendedSchema, s)
            : extendedSchema \in
                {createObjectSchemaFromShape(diffShape.shape, diffOpts, s)}})

createExtendedSchema(n, baseZodObject, st) ==
    IF baseZodObject = "" THEN Undefined(st)
    ELSE The({
        IF synthesized.type = "error" THEN synthesized
        ELSE createExtendedSchemaFrom(n, baseZodObject, After(st, synthesized))
        : synthesized \in
            {IF SynthesizesBase(st.components.schemas[baseZodObject],
                                baseZodObject)
             THEN createSchemaObject(baseZodObject, st, <<"extended schema">>)
             ELSE Undefined(st)}})

createObjectSchema(n, st) ==
    The({
        IF extendedSchema.type # "undefined" THEN extendedSchema
        ELSE createObjectSchemaFromShape(nodes[n].shape, OptsOf(n),
                                         After(st, extendedSchema))
        : extendedSchema \in {createExtendedSchema(n, nodes[n].extends, st)}})

----------------------------------------------------------------------------
(* Initial states: the schema graphs the caller built before synthesis *)

ObjNodes == {"base", "ext", "other"}

NodeIds == DOMAIN StaticNodes \cup ObjNodes \cup {"probe", "optbase", "arr"}

Object(shape, unknownKeys, catchall, extends, ref) ==
    [Node("ZodObject") EXCEPT !.shape = shape, !.unknownKeys = unknownKeys,
                              !.catchall = catchall, !.extends = extends,
                              !.ref = ref]

\* z.object({a: z.string()}).openapi({ref: 'obj1'}), its extension by
\* nothing, a second object asking for the same name, and an optional
\* wrapper around and an array of the first.
DefaultBase == Object(<<Field("a", "str")>>, "strip", "never", "", "obj1")

DefaultExt == Object(<<Field("a", "str")>>, "strip", "never", "base", "")

Other == Object(<<Field("a", "str")>>, "strip", "never", "", "obj1")

Table(base, ext, probe) ==
    [n \in NodeIds |->
        CASE n = "base" -> base
          [] n = "ext" -> ext
          [] n = "other" -> Other
          [] n = "probe" -> probe
          [] n = "optbase" -> Wrapper("ZodOptional", "base")
          [] n = "arr" -> Wrapper("ZodArray", "base")
          [] OTHER -> StaticNodes[n]]

\* Field nodes of a free-standing object, and of the fields an extension adds.
FieldNodes == {"str", "opt", "def", "never", "undef", "manual", "date", "xform"}

AddedNodes == {"str", "def", "objdef"}

\* The shapes that declare the nodes of `choice` under Keys[from], ...
ShapeOf(choice, from) ==
    [i \in 1..Len(choice) |-> Field(Keys[from + i - 1], choice[i])]

Choices(S, max) == UNION {[1..k -> S] : k \in 0..max}

UnknownKeys == {"strip", "strict"}

Catchalls == {"never", "bool", "objdef"}

EmptyComponents ==
    [schema |-> [name \in Names |-> NoComponent],
     schemas |-> [n \in NodeIds |-> NoEntry]]

NoCall == [op |-> "", node |-> "", name |-> ""]

NoResult == [type |-> "", schema |-> EmptyFrag, effects |-> <<>>,
             error |-> "", at |-> "", gen |-> <<>>, seen |-> <<>>]

InitRest ==
    /\ mode \in {"input", "output"}
    /\ components = EmptyComponents
    /\ call = NoCall
    /\ result = NoResult
    /\ history = <<>>

\* A free-standing object of up to MaxFields fields.
InitPlain ==
    \E choice \in Choices(FieldNodes, MaxFields), uk \in UnknownKeys,
       ca \in Catchalls :
        nodes = Table(DefaultBase,
                      Object(ShapeOf(choice, 1), uk, ca, "", ""),
                      Node("ZodString"))

\* A base object of one field and its extension, which keeps or overrides
\* that field and adds the fields of `added`.
Extended(field, ref, buk, bca, kept, added, uk, ca) ==
    Table(Object(<<Field("a", field)>>, buk, bca, "", ref),
          Object(<<Field("a", IF kept = "same" THEN field ELSE kept)>>
                 \o ShapeOf(added, 2), uk, ca, "base", ""),
          Node("ZodString"))

InitExtended ==
    \E field \in {"str", "def"}, ref \in {"", "obj1"},
       buk \in UnknownKeys, bca \in {"never", "bool"},
       kept \in {"same", "num"},
       added \in Choices(AddedNodes, MaxFields),
       uk \in UnknownKeys, ca \in {"never", "objdef"} :
        nodes = Extended(field, ref, buk, bca, kept, added, uk, ca)

\* A named base whose one field the dispatcher rejects, so that a synthesis
\* of the base throws, and an extension that keeps or overrides that field.
InitFailingBase ==
    \E kept \in {"same", "num"}, added \in Choices({"str"}, MaxFields) :
        nodes = Extended("xform", "obj1", "strip", "never", kept, added,
                         "strip", "never")

Init == (InitPlain \/ InitExtended \/ InitFailingBase) /\ InitRest

----------------------------------------------------------------------------
(* Operations *)

ResultOf(r) ==
    [type |-> r.type, schema |-> r.schema, effects |-> r.effects,
     error |-> r.error, at |-> r.at, gen |-> r.gen, seen |-> r.seen]

Return(op, n, name, r) ==
    /\ call' = [op |-> op, node |-> n, name |-> name]
    /\ result' = ResultOf(r)
    /\ components' = r.components
    /\ history' = history \o r.bound
    /\ UNCHANGED <<nodes, mode>>

CreateObjectSchema(n) ==
    /\ isZodType(n, "ZodObject")
    /\ \E r \in {createObjectSchema(n, FreshState)} :
          Return("createObjectSchema", n, "", r)

CreateSchemaObject(n) ==
    \E r \in {createSchemaObject(n, FreshState, <<>>)} :
        Return("createSchemaObject", n, "", r)

CreateSchema(n) ==
    \E r \in {createSchema(n, FreshState)} :
        Return("createSchema", n, "", r)

CreateRegisteredSchema(n, schemaRef) ==
    \E r \in {createRegisteredSchema(n, schemaRef, FreshState)} :
        Return("createRegisteredSchema", n, schemaRef, r)

\* The object composer and the entry point it recurses through, over the
\* generated object graphs.
Next ==
    \/ \E n \in ObjNodes : CreateObjectSchema(n)
    \/ \E n \in ObjNodes : CreateSchemaObject(n)

Spec == Init /\ [][Next]_vars

\* The dispatcher over a probe node of every variant.
ProbeNodes ==
    {[Node(k) EXCEPT !.type = t] : k \in LeafKinds \cup {"ZodAny", "ZodNever",
                                       "ZodUndefined", "ZodLazy"},
                                   t \in {"", "string"}}
    \cup {[Wrapper(k, i) EXCEPT !.type = t] :
             k \in InnerKinds, i \in {"str", "any"}, t \in {"", "string"}}
    \cup {[Effects(e, i) EXCEPT !.type = t] :
             e \in {"refinement", "preprocess", "transform"},
             i \in {"str", "any"}, t \in {"", "string"}}
    \cup {[Node(k) EXCEPT !.options = o, !.type = t] :
             k \in OptionKinds, o \in Choices({"str", "xform"}, MaxOptions),
             t \in {"", "string"}}
    \cup {[Node("ZodObject") EXCEPT !.shape = ShapeOf(o, 1), !.type = t] :
             o \in Choices({"str", "xform"}, MaxOptions), t \in {"", "string"}}

InitDispatch ==
    /\ \E probe \in ProbeNodes : nodes = Table(DefaultBase, DefaultExt, probe)
    /\ InitRest

NextDispatch == \E n \in NodeIds : CreateSchema(n)

SpecDispatch == InitDispatch /\ [][NextDispatch]_vars

\* Every operation, registration by name included, over one object graph.
RegNodes == {"str", "base", "ext", "optbase", "arr", "xform"}

InitRegistry ==
    /\ \E ref \in {"", "obj1"} :
          nodes = Table([DefaultBase EXCEPT !.ref = ref], DefaultExt,
                        Node("ZodString"))
    /\ InitRest

NextRegistry ==
    \/ \E n \in RegNodes, schemaRef \in Names : CreateRegisteredSchema(n, schemaRef)
    \/ \E n \in ObjNodes : CreateObjectSchema(n)
    \/ \E n \in ObjNodes : CreateSchemaObject(n)
    \/ \E n \in RegNodes : CreateSchema(n)

SpecRegistry == InitRegistry /\ [][NextRegistry]_vars

\* Cyclic graphs: a base object built late, z.late.object(() => ({a: X})),
\* whose field is the base itself, the array of it, the optional wrapper
\* around it or its extension, with or without a reference name; the
\* extension keeps that field and adds one.
CycleFields == {"base", "arr", "optbase", "ext"}

CycleNodes == {"base", "ext", "arr", "optbase"}

InitCycle ==
    /\ \E field \in CycleFields, ref \in {"", "obj1"},
          added \in {"str", "def"} :
          nodes = Extended(field, ref, "strip", "never", "same", <<added>>,
                           "strip", "never")
    /\ InitRest

NextCycle ==
    \/ \E n \in CycleNodes : CreateSchemaObject(n)
    \/ \E n \in CycleNodes, schemaRef \in Names : CreateRegisteredSchema(n, schemaRef)
    \/ \E n \in {"base", "ext"} : CreateObjectSchema(n)
    \/ \E n \in CycleNodes : CreateSchema(n)

SpecCycle == InitCycle /\ [][NextCycle]_vars

TypeOK ==
    /\ mode \in {"input", "output"}
    /\ DOMAIN nodes = NodeIds
    /\ result.type \in {"", "schema", "ref", "error"}

----------------------------------------------------------------------------
(* Properties of the object composer *)

InSeq(x, seq) == \E i \in 1..Len(seq) : seq[i] = x

PropertyOf(frag, key) ==
    {frag.properties[i].schema :
        i \in {j \in 1..Len(frag.properties) : frag.properties[j].key = key}}

\* createObjectSchema returned a fragment for the object node it was given.
Composed == call.op = "createObjectSchema" /\ result.type = "schema"

\* The fields the returned fragment was built from: the whole shape of the
\* node, or under an allOf composition the fields absent from the base.
ComposedShape ==
    LET d == nodes[call.node]
    IN  IF result.schema.allOf = <<>> THEN d.shape
        ELSE SelectSeq(d.shape,
                       LAMBDA f : ShapeGet(nodes[d.extends].shape, f.key) = "")

IsOptionalField(n) ==
    \/ nodes[n].typeName = "ZodOptional"
    \/ nodes[n].typeName = "ZodDefault" /\ mode = "input"

IsSentinel(n) == nodes[n].typeName \in {"ZodNever", "ZodUndefined"}

\* C1 as stated: a field is absent from `required` iff its node is an
\* optional wrapper, or a default wrapper in input mode.
C1_RequiredIffNotOptional ==
    Composed =>
        \A i \in 1..Len(ComposedShape) :
            ~InSeq(ComposedShape[i].key, result.schema.required)
                <=> IsOptionalField(ComposedShape[i].node)

\* C1 amended: a field is absent from `required` iff its node is an optional
\* wrapper, a default wrapper in input mode, or the never or undefined
\* sentinel; every other field is listed, once, in declaration order.
C1_RequiredLaw ==
    Composed =>
        /\ \A i \in 1..Len(ComposedShape) :
              ~InSeq(ComposedShape[i].key, result.schema.required)
                  <=> \/ IsOptionalField(ComposedShape[i].node)
                      \/ IsSentinel(ComposedShape[i].node)
        /\ \A i \in 1..Len(result.schema.required) :
              /\ InSeq(result.schema.required[i],
                       [j \in 1..Len(ComposedShape) |-> ComposedShape[j].key])
              /\ \A j \in 1..Len(result.schema.required) :
                    result.schema.required[i] = result.schema.required[j] => i = j

C1_Witness ==
    /\ Composed
    /\ mode = "output"
    /\ \E i, k \in 1..Len(ComposedShape) :
          /\ nodes[ComposedShape[i].node].typeName = "ZodDefault"
          /\ result.schema.required = <<ComposedShape[i].key>>
          /\ IsSentinel(ComposedShape[k].node)

\* C6 as stated: additionalProperties is false whenever the policy is strict,
\* else the catch-all's fragment when the catch-all is not never, else omitted.
C6_StrictFirst ==
    Composed =>
        LET d == nodes[call.node]
        IN  result.schema.additionalProperties =
                IF d.unknownKeys = "strict" THEN "false"
                ELSE IF d.catchall # "never" THEN "schema"
                ELSE "omitted"

CatchallFrag(n) ==
    IF n = "bool" THEN {TypeFrag("boolean")}
    ELSE {f \in {result.schema.additionalSchema[i] :
                    i \in 1..Len(result.schema.additionalSchema)} :
             f.type = "object" /\ f.hasProperties}

\* C6 amended: additionalProperties is the catch-all's fragment whenever the
\* catch-all is not never (also under a strict policy), else false when the
\* policy is strict, else omitted.
C6_CatchallFirst ==
    Composed =>
        LET d == nodes[call.node]
        IN  /\ result.schema.additionalProperties =
                  IF d.catchall # "never" THEN "schema"
                  ELSE IF d.unknownKeys = "strict" THEN "false"
                  ELSE "omitted"
            /\ d.catchall # "never" =>
                  /\ Len(result.schema.additionalSchema) = 1
                  /\ result.schema.additionalSchema[1] \in CatchallFrag(d.catchall)
            /\ d.catchall = "never" => result.schema.additionalSchema = <<>>

C6_Witness ==
    /\ Composed
    /\ nodes[call.node].unknownKeys = "strict"
    /\ nodes[call.node].catchall = "bool"
    /\ result.schema.additionalSchema = <<TypeFrag("boolean")>>

\* C7: a field whose node is the never or undefined sentinel is no key of
\* `properties`, no entry of `required`, and its node is not handed to the
\* dispatcher, whether the call returns or throws.
C7_SentinelsOmitted ==
    call.op = "createObjectSchema" =>
        \A i \in 1..Len(nodes[call.node].shape) :
            LET f == nodes[call.node].shape[i]
            IN  IsSentinel(f.node) =>
                    /\ PropertyOf(result.schema, f.key) = {}
                    /\ ~InSeq(f.key, result.schema.required)
                    /\ ~InSeq(f.node, result.gen)

C7_Witness ==
    /\ Composed
    /\ \E i, j \in 1..Len(nodes[call.node].shape) :
          /\ nodes[call.node].shape[i].node = "never"
          /\ nodes[call.node].shape[j].node = "undef"
    /\ result.schema.hasProperties
    /\ result.schema.properties = <<>>

ManualFrag(n) ==
    [EmptyFrag EXCEPT !.type = nodes[n].type, !.format = nodes[n].format]

\* C10: a field whose node carries a manual type is emitted as exactly that
\* type and is listed in `required`, also when the node is a union whose
\* members have no generator; no error is raised for it.
C10_ManualTypeWins ==
    (/\ call.op = "createObjectSchema"
     /\ nodes[call.node].extends = ""
     /\ \A i \in 1..Len(nodes[call.node].shape) :
           nodes[call.node].shape[i].node \in {"str", "manual", "date"})
    =>
        /\ result.type = "schema"
        /\ \A i \in 1..Len(nodes[call.node].shape) :
              LET f == nodes[call.node].shape[i]
              IN  nodes[f.node].type # "" =>
                      /\ PropertyOf(result.schema, f.key) = {ManualFrag(f.node)}
                      /\ InSeq(f.key, result.schema.required)

\* createObjectSchema returned a fragment for a node that declares a base.
ComposedExtension == Composed /\ nodes[call.node].extends # ""

BaseOf(n) == nodes[nodes[n].extends]

\* The base allows the composition: permissive policy, never catch-all, and
\* every key shared with the extension maps to the same node in both.
BasePermits(n) ==
    /\ BaseOf(n).unknownKeys # "strict"
    /\ BaseOf(n).catchall = "never"
    /\ \A i \in 1..Len(nodes[n].shape) :
          ShapeGet(BaseOf(n).shape, nodes[n].shape[i].key)
              \in {"", nodes[n].shape[i].node}

\* The keys of `properties`, in order.
PropertyKeys(frag) == [i \in 1..Len(frag.properties) |-> frag.properties[i].key]

\* The keys of the fields of a shape that are not sentinels, in order.
EmittedKeys(shape) ==
    LET kept == SelectSeq(shape, LAMBDA f : ~IsSentinel(f.node))
    IN  [i \in 1..Len(kept) |-> kept[i].key]

\* C2 as stated: for a node that declares a base, allOf is emitted iff the
\* base is permissive with a never catch-all and no shared key is overridden.
C2_AllOfIffBasePermits ==
    ComposedExtension =>
        (result.schema.allOf # <<>> <=> BasePermits(call.node))

\* C2 amended: allOf (the reference to the base, with only the added fields)
\* is emitted iff moreover the base carries a reference name or is already
\* in the registry; otherwise the fragment is the flat object of the whole
\* shape, without allOf.
C2_ExtensionSoundness ==
    ComposedExtension =>
        LET n == call.node
            b == nodes[n].extends
            known == nodes[b].ref # "" \/ components.schemas[b].type # "absent"
        IN  /\ result.schema.allOf # <<>> <=> (known /\ BasePermits(n))
            /\ result.schema.allOf # <<>> =>
                  /\ result.schema.allOf = <<RefFrag(components.schemas[b].ref)>>
                  /\ PropertyKeys(result.schema) =
                        EmittedKeys(SelectSeq(nodes[n].shape,
                            LAMBDA f : ShapeGet(nodes[b].shape, f.key) = ""))
            /\ result.schema.allOf = <<>> =>
                  PropertyKeys(result.schema) = EmittedKeys(nodes[n].shape)

C2_Witness ==
    /\ ComposedExtension
    /\ BasePermits(call.node)
    /\ result.schema.allOf = <<RefFrag("obj1")>>
    /\ PropertyKeys(result.schema) = <<"b">>

----------------------------------------------------------------------------
(* Properties of the registry by name *)

\* The node was registered under the name before.
Registered(n, name) ==
    \E i \in 1..Len(history) :
        history[i] = [name |-> name, zodSchema |-> n]

\* The node the name was first bound to.
FirstBound(name) ==
    history[CHOOSE i \in 1..Len(history) :
                /\ history[i].name = name
                /\ \A j \in 1..(i - 1) : history[j].name # name].zodSchema

\* C3: registering a node under the name it was registered under before
\* returns the reference to that name again, runs the dispatcher on no node,
\* and leaves the registry as it was.
C3_IdempotentRegistration ==
    [][(/\ call'.op = "createRegisteredSchema"
        /\ Registered(call'.node, call'.name))
       =>
          /\ result'.type = "ref"
          /\ result'.schema = RefFrag(call'.name)
          /\ result'.gen = <<>>
          /\ components' = components]_vars

\* C4: a name is never rebound: in every state each bound name is bound to
\* the node that first registered it.
C4_NameBoundToFirst ==
    \A x \in Names :
        components.schema[x].bound =>
            components.schema[x].zodSchema = FirstBound(x)

----------------------------------------------------------------------------
(* Properties of the dispatcher *)

\* The dispatcher itself, not a generator it delegated to, raised the error.
Unrecognized ==
    /\ result.type = "error"
    /\ result.error = "UnrecognizedSchemaKind"
    /\ result.at = call.node

\* The variants of the data model: primitive, composite and wrapper kinds.
VariantSet ==
    {"ZodString", "ZodNumber", "ZodBoolean", "ZodNull", "ZodLiteral",
     "ZodEnum", "ZodNativeEnum", "ZodDate", "ZodArray", "ZodObject",
     "ZodUnion", "ZodDiscriminatedUnion", "ZodRecord", "ZodTuple",
     "ZodOptional", "ZodNullable", "ZodDefault", "ZodEffects"}

\* C9 as stated: createSchema raises UnrecognizedSchemaKind exactly for a
\* node outside the variant set (effect/transform included in the set) that
\* carries no manual type.
C9_TotalOverVariantSet ==
    call.op = "createSchema" =>
        (Unrecognized <=> /\ nodes[call.node].typeName \notin VariantSet
                          /\ nodes[call.node].type = "")

\* C9 amended: createSchema raises UnrecognizedSchemaKind exactly for a node
\* without manual type that is outside the variant set or is an effect node
\* other than a refinement or a preprocess (a transform).
C9_UnrecognizedKind ==
    call.op = "createSchema" =>
        (Unrecognized <=>
            /\ nodes[call.node].type = ""
            /\ \/ nodes[call.node].typeName \notin VariantSet
               \/ /\ nodes[call.node].typeName = "ZodEffects"
                  /\ nodes[call.node].effect \notin {"refinement", "preprocess"})

C9_Witness ==
    /\ call.op = "createSchema"
    /\ call.node = "probe"
    /\ nodes["probe"].typeName = "ZodEffects"
    /\ nodes["probe"].effect = "transform"
    /\ nodes["probe"].type = "string"
    /\ result.type = "schema"
    /\ result.schema = EmptyFrag

----------------------------------------------------------------------------
(* Properties of the synthesis of cyclic graphs *)

\* The nodes a node's definition hands to the recursion.
Children(n) ==
    LET d == nodes[n]
    IN  {d.shape[i].node : i \in 1..Len(d.shape)}
        \cup {d.options[i] : i \in 1..Len(d.options)}
        \cup ({d.innerType, d.extends} \ {""})

RECURSIVE Descendants(_, _)
Descendants(S, k) ==
    IF k = 0 THEN S
    ELSE Descendants(S \cup UNION {Children(n) : n \in S}, k - 1)

\* The node's definition reaches the node again.
OnCycle(n) == n \in Descendants(Children(n), Cardinality(NodeIds))

Runs(n) == Cardinality({i \in 1..Len(result.gen) : result.gen[i] = n})

\* A request for a named node on a cycle, through either registry.
CyclicRequest ==
    /\ call.op \in {"createSchemaObject", "createRegisteredSchema"}
    /\ nodes[call.node].ref # ""
    /\ call.op = "createRegisteredSchema" => call.name = nodes[call.node].ref
    /\ OnCycle(call.node)

\* C11: the synthesis of a named node whose definition reaches the node
\* again terminates: the call stack is never exhausted, the dispatcher runs
\* on the node once and not again for the nested request, and the request
\* that ran it leaves the node's registry entry complete.
C11_CycleTerminates ==
    CyclicRequest =>
        /\ result.error # "RangeError"
        /\ Runs(call.node) <= 1
        /\ (result.type = "ref" /\ Runs(call.node) = 1) =>
               IF call.op = "createSchemaObject"
               THEN components.schemas[call.node].type = "complete"
               ELSE /\ components.schema[call.name].bound
                    /\ components.schema[call.name].zodSchema = call.node

====
